---------------------------- MODULE Spec2Model ----------------------------
(***************************************************************************)
(* Model of thermal_network/src/thermal_data.cpp: the ThermalData node.    *)
(*                                                                         *)
(* The node binds a UDP socket, starts a worker thread (temp_data) that    *)
(* reads 4 datagrams per frame into shelf_ and calls process_data, which   *)
(* optionally recalibrates the range, decodes every 16-bit sample, maps it *)
(* to a temperature and a palette colour and writes both output buffers.   *)
(*                                                                         *)
(* Representation choices (all stated where they are made):                *)
(*  - a segment buffer is a pair of byte patterns spliced at a byte offset, *)
(*    so a short datagram overwrites only the head of the buffer;          *)
(*  - temperature_data_ and image_data_ are observed at ProbeCells;        *)
(*    process_data never reads them, so the projection is exact;           *)
(*  - a temperature is held in hundredths of a degree Celsius;             *)
(*  - float32 arithmetic on scale_ is computed bit-exactly on integers.    *)
(***************************************************************************)
EXTENDS Integers, Sequences, FiniteSets, TLC

(***************************************************************************)
(* Program constants.                                                      *)
(***************************************************************************)
SegCount == 4
SegBytes == 9840
SegWords == 4920
PacketWords == 82
HeaderWords == 2
SegRows == 30
myImageWidth_ == 160
myImageHeight_ == 120
rangeMin_ == 27300
rangeMax_ == 31500
U16Max == 65535
FullScale == 255
CentiPerDegree == 100
KelvinOffset == 273
Channels == 3

\* The colour table, element k of the std::vector at position k + 1 of the tuple.
colormap_ironblack_ ==
  <<
     255, 255, 255, 253, 253, 253, 251, 251, 251, 249, 249, 249, 247, 247, 247, 245,
     245, 245, 243, 243, 243, 241, 241, 241, 239, 239, 239, 237, 237, 237, 235, 235,
     235, 233, 233, 233, 231, 231, 231, 229, 229, 229, 227, 227, 227, 225, 225, 225,
     223, 223, 223, 221, 221, 221, 219, 219, 219, 217, 217, 217, 215, 215, 215, 213,
     213, 213, 211, 211, 211, 209, 209, 209, 207, 207, 207, 205, 205, 205, 203, 203,
     203, 201, 201, 201, 199, 199, 199, 197, 197, 197, 195, 195, 195, 193, 193, 193,
     191, 191, 191, 189, 189, 189, 187, 187, 187, 185, 185, 185, 183, 183, 183, 181,
     181, 181, 179, 179, 179, 177, 177, 177, 175, 175, 175, 173, 173, 173, 171, 171,
     171, 169, 169, 169, 167, 167, 167, 165, 165, 165, 163, 163, 163, 161, 161, 161,
     159, 159, 159, 157, 157, 157, 155, 155, 155, 153, 153, 153, 151, 151, 151, 149,
     149, 149, 147, 147, 147, 145, 145, 145, 143, 143, 143, 141, 141, 141, 139, 139,
     139, 137, 137, 137, 135, 135, 135, 133, 133, 133, 131, 131, 131, 129, 129, 129,
     126, 126, 126, 124, 124, 124, 122, 122, 122, 120, 120, 120, 118, 118, 118, 116,
     116, 116, 114, 114, 114, 112, 112, 112, 110, 110, 110, 108, 108, 108, 106, 106,
     106, 104, 104, 104, 102, 102, 102, 100, 100, 100, 98, 98, 98, 96, 96, 96,
     94, 94, 94, 92, 92, 92, 90, 90, 90, 88, 88, 88, 86, 86, 86, 84,
     84, 84, 82, 82, 82, 80, 80, 80, 78, 78, 78, 76, 76, 76, 74, 74,
     74, 72, 72, 72, 70, 70, 70, 68, 68, 68, 66, 66, 66, 64, 64, 64,
     62, 62, 62, 60, 60, 60, 58, 58, 58, 56, 56, 56, 54, 54, 54, 52,
     52, 52, 50, 50, 50, 48, 48, 48, 46, 46, 46, 44, 44, 44, 42, 42,
     42, 40, 40, 40, 38, 38, 38, 36, 36, 36, 34, 34, 34, 32, 32, 32,
     30, 30, 30, 28, 28, 28, 26, 26, 26, 24, 24, 24, 22, 22, 22, 20,
     20, 20, 18, 18, 18, 16, 16, 16, 14, 14, 14, 12, 12, 12, 10, 10,
     10, 8, 8, 8, 6, 6, 6, 4, 4, 4, 2, 2, 2, 0, 0, 0,
     0, 0, 9, 2, 0, 16, 4, 0, 24, 6, 0, 31, 8, 0, 38, 10,
     0, 45, 12, 0, 53, 14, 0, 60, 17, 0, 67, 19, 0, 74, 21, 0,
     82, 23, 0, 89, 25, 0, 96, 27, 0, 103, 29, 0, 111, 31, 0, 118,
     36, 0, 120, 41, 0, 121, 46, 0, 122, 51, 0, 123, 56, 0, 124, 61,
     0, 125, 66, 0, 126, 71, 0, 127, 76, 1, 128, 81, 1, 129, 86, 1,
     130, 91, 1, 131, 96, 1, 132, 101, 1, 133, 106, 1, 134, 111, 1, 135,
     116, 1, 136, 121, 1, 136, 125, 2, 137, 130, 2, 137, 135, 3, 137, 139,
     3, 138, 144, 3, 138, 149, 4, 138, 153, 4, 139, 158, 5, 139, 163, 5,
     139, 167, 5, 140, 172, 6, 140, 177, 6, 140, 181, 7, 141, 186, 7, 141,
     189, 10, 137, 191, 13, 132, 194, 16, 127, 196, 19, 121, 198, 22, 116, 200,
     25, 111, 203, 28, 106, 205, 31, 101, 207, 34, 95, 209, 37, 90, 212, 40,
     85, 214, 43, 80, 216, 46, 75, 218, 49, 69, 221, 52, 64, 223, 55, 59,
     224, 57, 49, 225, 60, 47, 226, 64, 44, 227, 67, 42, 228, 71, 39, 229,
     74, 37, 230, 78, 34, 231, 81, 32, 231, 85, 29, 232, 88, 27, 233, 92,
     24, 234, 95, 22, 235, 99, 19, 236, 102, 17, 237, 106, 14, 238, 109, 12,
     239, 112, 12, 240, 116, 12, 240, 119, 12, 241, 123, 12, 241, 127, 12, 242,
     130, 12, 242, 134, 12, 243, 138, 12, 243, 141, 13, 244, 145, 13, 244, 149,
     13, 245, 152, 13, 245, 156, 13, 246, 160, 13, 246, 163, 13, 247, 167, 13,
     247, 171, 13, 248, 175, 14, 248, 178, 15, 249, 182, 16, 249, 185, 18, 250,
     189, 19, 250, 192, 20, 251, 196, 21, 251, 199, 22, 252, 203, 23, 252, 206,
     24, 253, 210, 25, 253, 213, 27, 254, 217, 28, 254, 220, 29, 255, 224, 30,
     255, 227, 39, 255, 229, 53, 255, 231, 67, 255, 233, 81, 255, 234, 95, 255,
     236, 109, 255, 238, 123, 255, 240, 137, 255, 242, 151, 255, 244, 165, 255, 246,
     179, 255, 248, 193, 255, 249, 207, 255, 251, 221, 255, 253, 235, 255, 255, 24,
     -1
  >>

selectedColormapSize_ == Len(colormap_ironblack_)

\* selectedColormap_[k], 0-based as in the source.
selectedColormap_(k) == colormap_ironblack_[k + 1]

\* Conversion of an int to uint8_t / uint16_t (modular).
ToU8(a) == a % 256
ToU16(a) == a % (U16Max + 1)

(***************************************************************************)
(* IEEE-754 binary32 arithmetic, on integers that fit 32 bits.  A positive *)
(* float is [m, e] with 2^23 <= m < 2^24 and value m * 2^(-e).             *)
(***************************************************************************)
RECURSIVE DivBits(_, _, _, _)
DivBits(q, r, d, e) ==
  IF q >= 2^23 THEN <<q, r, e>>
  ELSE IF 2 * r >= d THEN DivBits(2 * q + 1, 2 * r - d, d, e + 1)
       ELSE DivBits(2 * q, 2 * r, d, e + 1)

\* n / d rounded to nearest-even, for 1 <= n < 2^23 and 1 <= d < 2^16.
F32Div(n, d) ==
  LET b == DivBits(n \div d, n % d, d, 0)
      q == b[1]
      r == b[2]
      e == b[3]
      up == (2 * r > d) \/ (2 * r = d /\ q % 2 = 1)
      m == IF up THEN q + 1 ELSE q
  IN IF m = 2^24 THEN [m |-> 2^23, e |-> e - 1] ELSE [m |-> m, e |-> e]

RECURSIVE BitLen(_)
BitLen(a) == IF a = 0 THEN 0 ELSE 1 + BitLen(a \div 2)

\* trunc(fl32(d * s)) for an integer 0 <= d < 2^16 and a float s = [m, e]
\* with e >= 12: the exact product is (A * 4096 + B) * 2^(-e); rounding to 24
\* significant bits changes the integer part only when it reaches the next
\* integer, which happens when the gap to it is at most half an ulp.
F32MulTrunc(d, s) ==
  LET Mh == s.m \div 4096
      Ml == s.m % 4096
      lo == d * Ml
      A == d * Mh + lo \div 4096
      B == lo % 4096
      sh == s.e - 12
      n == A \div 2^sh
      H == 2^sh - (A % 2^sh)
      t == BitLen(A) - 13
  IN IF t >= 0 /\ H <= 16 /\ H * 4096 - B <= 2^t THEN n + 1 ELSE n

(***************************************************************************)
(* Bounds of the model: the datagrams the sender may send and how many.    *)
(***************************************************************************)
MaxDatagrams == 8
MaxShort == 1
ShortLen == 164
SpotValue == 29800
ColdValue == 20000
HolePos == 286

(***************************************************************************)
(* Datagram payloads.  A pattern is a payload whose 16-bit big-endian      *)
(* words all equal fill, except word pos, which equals val (pos = SegWords *)
(* for no exception).  Header words carry the fill as well.                *)
(***************************************************************************)
Pattern(fill, pos, val) == [fill |-> fill, pos |-> pos, val |-> val]
PatZero == Pattern(0, SegWords, 0)
PatSpot == Pattern(0, HeaderWords, SpotValue)
PatWarm == Pattern(SpotValue, SegWords, 0)
PatHole == Pattern(SpotValue, HolePos, 0)
PatHot == Pattern(U16Max, SegWords, 0)
PatCold == Pattern(ColdValue, SegWords, 0)
Patterns == {PatZero, PatSpot, PatWarm, PatHole, PatHot, PatCold}

\* The frames the sender may send: datagram k of a frame is for shelf_[k - 1].
Frames ==
  { <<PatZero, PatZero, PatZero, PatZero>>,
    <<PatSpot, PatZero, PatZero, PatZero>>,
    <<PatWarm, PatHole, PatWarm, PatWarm>>,
    <<PatCold, PatWarm, PatHot, PatWarm>> }

\* Byte j of a payload.
PatByte(p, j) ==
  LET w == IF j \div 2 = p.pos THEN p.val ELSE p.fill
  IN IF j % 2 = 0 THEN w \div 256 ELSE w % 256

(***************************************************************************)
(* shelf_[k]: std::array<uint8_t, 9840>.  Its content is the first cut     *)
(* bytes of payload head followed by the bytes of payload tail from cut on *)
(* (what a short datagram leaves behind); cut = SegBytes for a buffer      *)
(* filled by one full datagram.                                            *)
(***************************************************************************)
Content(head, cut, tail) == [head |-> head, cut |-> cut, tail |-> tail]
Whole(p) == Content(p, SegBytes, p)
Contents ==
  {Whole(p) : p \in Patterns}
    \cup {Content(h, ShortLen, t) : h \in Patterns, t \in Patterns}

ShelfByte(c, j) == IF j < c.cut THEN PatByte(c.head, j) ELSE PatByte(c.tail, j)

\* recvfrom(sockfd_, shelf_[i].data(), sizeof(shelf_[i]), ...) delivering the
\* first n bytes of payload p into a buffer holding old; n is ShortLen or
\* SegBytes (a longer datagram is cut to the buffer size).
Received(n, p, old) ==
  IF n >= SegBytes THEN Whole(p)
  ELSE Content(p, n, IF old.cut >= SegBytes THEN old.head ELSE old.tail)

\* (shelf_[s][i * 2] << 8) + shelf_[s][i * 2 + 1], stored in a uint16_t.
DecodeWord(c, i) == ToU16(ShelfByte(c, i * 2) * 256 + ShelfByte(c, i * 2 + 1))

\* i % 82 < 2: the two header words of every packet.
IsHeader(i) == i % PacketWords < HeaderWords
SampleWords == {i \in 0..(SegWords - 1) : ~IsHeader(i)}

(***************************************************************************)
(* Destination of word i of segment iSegment (1..4).                       *)
(***************************************************************************)
OfsRow(iSegment) == SegRows * (iSegment - 1)
\* The column without the header width taken off.
Column_KeepHeader(i) ==
  (i % PacketWords)
    + (myImageWidth_ \div 2) * ((i % (PacketWords * 2)) \div PacketWords)
Column(i) ==
  (i % PacketWords) - HeaderWords
    + (myImageWidth_ \div 2) * ((i % (PacketWords * 2)) \div PacketWords)
Row(iSegment, i) == ((i \div PacketWords) \div 2) + OfsRow(iSegment)
InGrid(row, column) == row < myImageHeight_ /\ column < myImageWidth_
CellIndex(row, column) == row * myImageWidth_ + column
CellOf(iSegment, i) == CellIndex(Row(iSegment, i), Column(i))

\* Per-buffer summaries of the two loops over i, computed once per content.
\* The first sample word equal to 0, where the decode loop breaks.
FirstZeroOf(c) ==
  IF \E i \in SampleWords : DecodeWord(c, i) = 0
  THEN CHOOSE i \in SampleWords :
         DecodeWord(c, i) = 0 /\ \A j \in SampleWords : j < i => DecodeWord(c, j) # 0
  ELSE SegWords
FirstZeroTable == [c \in Contents |-> FirstZeroOf(c)] @@ << >>
\* The non-zero sample values of a buffer, which is all the range scan reads.
NonZeroOf(c) == {DecodeWord(c, i) : i \in SampleWords} \ {0}
NonZeroTable == [c \in Contents |-> NonZeroOf(c)] @@ << >>


(***************************************************************************)
(* The cells of the output buffers that the model observes: the corners of *)
(* the grid, the seam between the two half rows, and the cells around      *)
(* word HolePos of segment 2.                                              *)
(***************************************************************************)
Segments == 1..SegCount
Cells == 0..(myImageWidth_ * myImageHeight_ - 1)
ProbeCells ==
  { 0, (myImageWidth_ \div 2) - 1, myImageWidth_ \div 2, myImageWidth_ - 1,
    myImageWidth_, myImageWidth_ * myImageHeight_ - 1,
    CellOf(2, HolePos - 1), CellOf(2, HolePos), CellOf(2, HolePos + 1),
    CellOf(2, HolePos + 2 * PacketWords), CellOf(3, HeaderWords) }

\* The (iSegment, i) whose destination is cell p and that pass the bounds check.
WritersOf(p) ==
  { <<w[1], w[2]>> :
      w \in {u \in Segments \X SampleWords :
               InGrid(Row(u[1], u[2]), Column(u[2])) /\ CellOf(u[1], u[2]) = p} }
WritersTable == [p \in ProbeCells |-> WritersOf(p)] @@ << >>

VARIABLES
  mainPc,            \* where main() / the constructor / the destructor stands
  workerPc,          \* where received_thread_ stands in temp_data
  ok,                \* rclcpp::ok()
  sockfd_,           \* "unset", "open", "closed" or "invalid" (socket() < 0)
  closes,            \* close(sockfd_) calls made on a descriptor socket() returned
  iSeg,              \* i of the for loop of temp_data
  lens,              \* received_bytes of the reads of the current frame
  wire,              \* the frame the sender is sending
  delivered,         \* datagrams delivered so far
  shortReads,        \* datagrams shorter than SegBytes delivered so far
  shelf_,
  autoRangeMin_,
  autoRangeMax_,
  minValue_,
  maxValue_,
  diff_,
  scale_,
  n_zero_value_drop_frame_,
  dropped,           \* n_zero_value_drop_frame_ of the last frame before its reset
  temperature_data_, \* at ProbeCells, in hundredths of a degree
  image_data_,       \* at ProbeCells, the 3 bytes of the cell
  prevTemperature,   \* temperature_data_ when the last process_data began
  prevImage,         \* image_data_ when the last process_data began
  writes,            \* writes to each probe cell made by the last process_data
  lastWrite,         \* the locals of process_data at the last write to the cell
  published,         \* frames published
  readsAfterStop,    \* recvfrom calls that returned while rclcpp::ok() was false
  decodesAfterStop   \* process_data calls begun while rclcpp::ok() was false

vars ==
  << mainPc, workerPc, ok, sockfd_, closes, iSeg, lens, wire, delivered,
     shortReads, shelf_, autoRangeMin_, autoRangeMax_, minValue_, maxValue_,
     diff_, scale_, n_zero_value_drop_frame_, dropped, temperature_data_,
     image_data_, prevTemperature, prevImage, writes, lastWrite, published,
     readsAfterStop, decodesAfterStop >>

netVars == <<iSeg, lens, wire, delivered, shortReads, shelf_>>
rangeVars == <<autoRangeMin_, autoRangeMax_, minValue_, maxValue_, diff_, scale_>>
outVars ==
  << n_zero_value_drop_frame_, dropped, temperature_data_, image_data_,
     prevTemperature, prevImage, writes, lastWrite, published >>
stopVars == <<readsAfterStop, decodesAfterStop>>

\* scale_ = 255 / diff_ in float.  A diff_ that is not positive gives a quotient
\* that is infinite or negative; it is kept as the record with m = 0.
ScaleOf(d) == IF d > 0 THEN F32Div(FullScale, d) ELSE [m |-> 0, e |-> 0]

NoWrite ==
  [iSegment |-> 0, i |-> 0, valueFrameBuffer |-> 0, value |-> 0,
   ofs_r |-> 0, ofs_g |-> 0, ofs_b |-> 0]

(***************************************************************************)
(* The state after the member initialisers, before the constructor body.   *)
(* autoRangeMin_ and autoRangeMax_ are the node's configuration: the       *)
(* source sets both to false, process_data handles all four settings.      *)
(* shelf_ has no initialiser: its bytes are indeterminate.                 *)
(***************************************************************************)
Init ==
  /\ mainPc = "socket"
  /\ workerPc = "none"
  /\ ok = TRUE
  /\ sockfd_ = "unset"
  /\ closes = 0
  /\ iSeg = 0
  /\ lens = << >>
  /\ wire = <<PatZero, PatZero, PatZero, PatZero>>
  /\ delivered = 0
  /\ shortReads = 0
  /\ \E g \in {PatZero, PatHot} : shelf_ = [k \in 0..(SegCount - 1) |-> Whole(g)]
  /\ autoRangeMin_ \in BOOLEAN
  /\ autoRangeMax_ \in BOOLEAN
  /\ minValue_ = rangeMin_
  /\ maxValue_ = rangeMax_
  /\ diff_ = rangeMax_ - rangeMin_
  /\ scale_ = ScaleOf(rangeMax_ - rangeMin_)
  /\ n_zero_value_drop_frame_ = 0
  /\ dropped = 0
  /\ temperature_data_ = [p \in ProbeCells |-> 0]
  /\ image_data_ = [p \in ProbeCells |-> <<0, 0, 0>>]
  /\ prevTemperature = [p \in ProbeCells |-> 0]
  /\ prevImage = [p \in ProbeCells |-> <<0, 0, 0>>]
  /\ writes = [p \in ProbeCells |-> 0]
  /\ lastWrite = [p \in ProbeCells |-> NoWrite]
  /\ published = 0
  /\ readsAfterStop = 0
  /\ decodesAfterStop = 0

(***************************************************************************)
(* close(sockfd_): counted when sockfd_ is a descriptor socket() returned, *)
(* whether or not it is still open; close(-1) closes nothing.              *)
(***************************************************************************)
ClosedFd(fd) == IF fd = "invalid" THEN fd ELSE "closed"
CloseCount(fd, n) == IF fd = "invalid" THEN n ELSE n + 1

(***************************************************************************)
(* The constructor.                                                        *)
(***************************************************************************)
\* socket(AF_INET, SOCK_DGRAM, 0); on failure rclcpp::shutdown(), no return.
CtorSocket ==
  /\ mainPc = "socket"
  /\ \E good \in BOOLEAN :
       /\ sockfd_' = IF good THEN "open" ELSE "invalid"
       /\ ok' = (ok /\ good)
  /\ mainPc' = "bind"
  /\ UNCHANGED <<workerPc, closes, netVars, rangeVars, outVars, stopVars>>

\* bind(); on failure close(sockfd_) and rclcpp::shutdown(), no return.
CtorBind ==
  /\ mainPc = "bind"
  /\ \E good \in BOOLEAN :
       /\ good => sockfd_ = "open"
       /\ sockfd_' = IF good THEN sockfd_ ELSE ClosedFd(sockfd_)
       /\ closes' = IF good THEN closes ELSE CloseCount(sockfd_, closes)
       /\ ok' = (ok /\ good)
  /\ mainPc' = "start"
  /\ UNCHANGED <<workerPc, netVars, rangeVars, outVars, stopVars>>

\* The publishers are created and received_thread_ is started; main then spins.
CtorStartThread ==
  /\ mainPc = "start"
  /\ workerPc' = "loop"
  /\ mainPc' = "spin"
  /\ UNCHANGED <<ok, sockfd_, closes, netVars, rangeVars, outVars, stopVars>>

\* The external shutdown signal: rclcpp's signal handler makes rclcpp::ok() false.
Shutdown ==
  /\ ok
  /\ mainPc # "exit"
  /\ ok' = FALSE
  /\ UNCHANGED <<mainPc, workerPc, sockfd_, closes, netVars, rangeVars, outVars, stopVars>>

\* rclcpp::spin returns once the context is shut down; the temporary
\* shared_ptr is released and ~ThermalData runs: close(sockfd_).
DtorClose ==
  /\ mainPc = "spin"
  /\ ~ok
  /\ sockfd_' = ClosedFd(sockfd_)
  /\ closes' = CloseCount(sockfd_, closes)
  /\ mainPc' = "dtor_join"
  /\ UNCHANGED <<workerPc, ok, netVars, rangeVars, outVars, stopVars>>

\* ~ThermalData: received_thread_.join() returns when temp_data has returned.
DtorJoin ==
  /\ mainPc = "dtor_join"
  /\ workerPc = "done"
  /\ mainPc' = "exit"
  /\ UNCHANGED <<workerPc, ok, sockfd_, closes, netVars, rangeVars, outVars, stopVars>>

(***************************************************************************)
(* temp_data: the worker thread.                                           *)
(***************************************************************************)
\* while (true): the loop test ignoring the shutdown signal.
LoopCondition_Always(okNow) == TRUE

\* while (rclcpp::ok())
LoopCondition(okNow) == okNow

WorkerLoop ==
  /\ workerPc = "loop"
  /\ IF LoopCondition(ok)
     THEN /\ workerPc' = "recv"
          /\ iSeg' = 0
          /\ lens' = << >>
     ELSE /\ workerPc' = "done"
          /\ UNCHANGED <<iSeg, lens>>
  /\ UNCHANGED << mainPc, ok, sockfd_, closes, wire, delivered, shortReads, shelf_,
                  rangeVars, outVars, stopVars >>

\* What recvfrom can return: -1 on an error (always, once the descriptor is
\* closed), else the length of the datagram, at most sizeof(shelf_[i]).
ReadResults(fd) == IF fd = "open" THEN {-1, ShortLen, SegBytes} ELSE {-1}

\* if (received_bytes < 0)
ReadFailed(received_bytes) == received_bytes < 0

\* One recvfrom of the for loop returns.  The sender starts a new frame with
\* datagram 0 and sends at most MaxDatagrams datagrams; after that the call
\* blocks.
Recv ==
  /\ workerPc = "recv"
  /\ \E received_bytes \in ReadResults(sockfd_) :
       IF ReadFailed(received_bytes)
       THEN /\ sockfd_' = ClosedFd(sockfd_)
            /\ closes' = CloseCount(sockfd_, closes)
            /\ workerPc' = "done"
            /\ UNCHANGED netVars
       ELSE /\ received_bytes < SegBytes => shortReads < MaxShort
            /\ shortReads' = shortReads + (IF received_bytes < SegBytes THEN 1 ELSE 0)
            /\ delivered < MaxDatagrams
            /\ delivered' = delivered + 1
            /\ IF iSeg = 0 THEN wire' \in Frames ELSE wire' = wire
            /\ shelf_' = [shelf_ EXCEPT ![iSeg] = Received(received_bytes, wire'[iSeg + 1], @)]
            /\ lens' = Append(lens, received_bytes)
            /\ iSeg' = iSeg + 1
            /\ workerPc' = IF iSeg + 1 < SegCount THEN "recv" ELSE "process"
            /\ UNCHANGED <<sockfd_, closes>>
  /\ readsAfterStop' = readsAfterStop + (IF ok THEN 0 ELSE 1)
  /\ UNCHANGED <<mainPc, ok, rangeVars, outVars, decodesAfterStop>>

(***************************************************************************)
(* process_data: the range scan.                                           *)
(***************************************************************************)
\* The seeds by flag: the maximum reset to 0 under auto-max, the minimum reset
\* to 65535 under auto-min.
SeedRange_PerFlag(amin, amax, mn, mx) ==
  [min |-> IF amin THEN U16Max ELSE mn, max |-> IF amax THEN 0 ELSE mx]

\* if (autoRangeMin_) maxValue_ = 65535;  if (autoRangeMax_) minValue_ = 0;
SeedRange(amin, amax, mn, mx) ==
  [min |-> IF amax THEN 0 ELSE mn, max |-> IF amin THEN U16Max ELSE mx]

SetMax(S) == CHOOSE a \in S : \A b \in S : b <= a
SetMin(S) == CHOOSE a \in S : \A b \in S : a <= b

\* The non-zero samples of the 4 segments, header words skipped.
FrameValues(shelf) == UNION {NonZeroTable[shelf[k]] : k \in 0..(SegCount - 1)}

\* if (autoRangeMax_ && (value > maxValue_)) maxValue_ = value; over all samples
ScanMax(amax, seed, values) == IF amax THEN SetMax({seed} \cup values) ELSE seed
\* if (autoRangeMin_ && (value < minValue_)) minValue_ = value; over all samples
ScanMin(amin, seed, values) == IF amin THEN SetMin({seed} \cup values) ELSE seed

Calibrated(amin, amax, mn, mx, df, sc, values) ==
  IF amin \/ amax
  THEN LET seed == SeedRange(amin, amax, mn, mx)
           mx2 == ScanMax(amax, seed.max, values)
           mn2 == ScanMin(amin, seed.min, values)
       IN [min |-> mn2, max |-> mx2, diff |-> mx2 - mn2, scale |-> ScaleOf(mx2 - mn2)]
  ELSE [min |-> mn, max |-> mx, diff |-> df, scale |-> sc]

(***************************************************************************)
(* process_data: decoding one sample.                                      *)
(***************************************************************************)
\* continue in place of break: only the zero sample itself is skipped.
Decoded_Continue(c, i) == DecodeWord(c, i) # 0

\* The decode loop of a segment holding c gets to sample word i and finds it
\* non-zero: the loop breaks at the first sample word that is 0.
Decoded(c, i) == i < FirstZeroTable[c]

\* n_zero_value_drop_frame_++ ; break;  once per segment that holds a zero.
Breaks(c) == IF FirstZeroTable[c] < SegWords THEN 1 ELSE 0

\* The conversion of the float product to uint16_t.  It is undefined when
\* the product is not in 0..65535, which needs diff_ <= 0 or a negative
\* difference; ub is then the value the build produces.
FloatToU16(d, cal, ub) ==
  IF cal.diff <= 0 \/ d < 0 THEN ub
  ELSE LET k == F32MulTrunc(d, cal.scale) IN IF k > U16Max THEN ub ELSE k
UBResults(df) == IF df <= 0 THEN {0, U16Max} ELSE {0}

\* value, the index into the palette before it is multiplied by 3.
ClampedValue(v, cal, amin, amax, ub) ==
  IF ~amax /\ v > cal.max THEN cal.max
  ELSE IF ~amin /\ v <= cal.min THEN cal.min
  ELSE FloatToU16(v - cal.min, cal, ub)

\* int ofs = 3 * value + ch; if (selectedColormapSize_ <= ofs) ofs = size - 1;
Offset(value, ch) ==
  LET ofs == Channels * value + ch
  IN IF selectedColormapSize_ <= ofs THEN selectedColormapSize_ - 1 ELSE ofs

\* float temperature = (valueFrameBuffer / 100.0) - 273.0, in hundredths.
Temperature(v) == v - KelvinOffset * CentiPerDegree

\* image_data_[.. + 0] = map[ofs_b]; [.. + 1] = map[ofs_g]; [.. + 2] = map[ofs_r];
PixelBytes(value) ==
  << ToU8(selectedColormap_(Offset(value, 2))),
     ToU8(selectedColormap_(Offset(value, 1))),
     ToU8(selectedColormap_(Offset(value, 0))) >>

\* The writes of one decode pass to cell p, and the last of them in loop order.
WritesTo(p, shelf) == {w \in WritersTable[p] : Decoded(shelf[w[1] - 1], w[2])}
LastOf(ws) ==
  CHOOSE w \in ws :
    \A u \in ws : u[1] < w[1] \/ (u[1] = w[1] /\ u[2] <= w[2])

WriteRecord(w, v, value) ==
  [iSegment |-> w[1], i |-> w[2], valueFrameBuffer |-> v, value |-> value,
   ofs_r |-> Offset(value, 0), ofs_g |-> Offset(value, 1), ofs_b |-> Offset(value, 2)]

(***************************************************************************)
(* process_data, whole: the scan, the decode pass over the 4 segments, the *)
(* reset of the drop counter and the two publish calls.                    *)
(***************************************************************************)
ProcessData ==
  /\ workerPc = "process"
  /\ LET cal == Calibrated(autoRangeMin_, autoRangeMax_, minValue_, maxValue_,
                           diff_, scale_, FrameValues(shelf_))
         drops == ToU16(n_zero_value_drop_frame_
                          + Breaks(shelf_[0]) + Breaks(shelf_[1])
                          + Breaks(shelf_[2]) + Breaks(shelf_[3]))
     IN /\ minValue_' = cal.min
        /\ maxValue_' = cal.max
        /\ diff_' = cal.diff
        /\ scale_' = cal.scale
        /\ dropped' = drops
        /\ n_zero_value_drop_frame_' = 0
        /\ \E ub \in UBResults(cal.diff) :
             LET sample(w) == DecodeWord(shelf_[w[1] - 1], w[2])
                 value(w) == ClampedValue(sample(w), cal, autoRangeMin_, autoRangeMax_, ub)
                 hit(p) == WritesTo(p, shelf_)
             IN /\ temperature_data_' =
                     [p \in ProbeCells |->
                        IF hit(p) = {} THEN temperature_data_[p]
                        ELSE Temperature(sample(LastOf(hit(p))))]
                /\ image_data_' =
                     [p \in ProbeCells |->
                        IF hit(p) = {} THEN image_data_[p]
                        ELSE PixelBytes(value(LastOf(hit(p))))]
                /\ writes' = [p \in ProbeCells |-> Cardinality(hit(p))]
                /\ lastWrite' =
                     [p \in ProbeCells |->
                        IF hit(p) = {} THEN lastWrite[p]
                        ELSE LET w == LastOf(hit(p))
                             IN WriteRecord(w, sample(w), value(w))]
  /\ prevTemperature' = temperature_data_
  /\ prevImage' = image_data_
  /\ published' = published + 1
  /\ decodesAfterStop' = decodesAfterStop + (IF ok THEN 0 ELSE 1)
  /\ workerPc' = "loop"
  /\ UNCHANGED << mainPc, ok, sockfd_, closes, netVars, autoRangeMin_, autoRangeMax_,
                  readsAfterStop >>

Next ==
  \/ CtorSocket
  \/ CtorBind
  \/ CtorStartThread
  \/ Shutdown
  \/ DtorClose
  \/ DtorJoin
  \/ WorkerLoop
  \/ Recv
  \/ ProcessData

Spec == Init /\ [][Next]_vars

(***************************************************************************)
(* Properties.                                                             *)
(***************************************************************************)
\* Every datagram so far filled its segment buffer.
\* (C2, C3, C6 and C8 are stated for such runs, so that what refutes them is
\* not the short read of C1.)
\* The state right after process_data returned: shelf_ still holds the frame
\* it decoded, and writes, lastWrite, dropped, prevTemperature and prevImage
\* describe that call.
JustProcessed == published > 0 /\ workerPc = "loop"
FixedRange == ~autoRangeMin_ /\ ~autoRangeMax_

\* C1: process_data runs only after 4 reads that each delivered exactly
\* SegBytes bytes; a read that fails or comes short stops the pipeline before
\* the frame is decoded.
C1_DecodeOnlyFullFrames ==
  workerPc = "process" =>
    /\ Len(lens) = SegCount
    /\ \A k \in 1..Len(lens) : lens[k] = SegBytes

\* C7 as claimed: once shutdown is signalled, at most the one read in flight
\* returns, and no decode or publish begins.
C7_OneReadAfterShutdown == readsAfterStop <= 1 /\ decodesAfterStop = 0

\* C7 as amended: once shutdown is signalled the worker begins no new frame:
\* at most the SegCount reads of the frame in progress return and
\* process_data runs at most once more before the worker leaves the loop.
C7_StopsAtFrameBoundary ==
  /\ readsAfterStop <= SegCount
  /\ decodesAfterStop <= 1
  /\ decodesAfterStop = 1 => workerPc \in {"loop", "done"}

\* C7 witness: shutdown arrived during the first read of a frame; the other
\* reads returned, the frame was decoded and published, the worker left.
C7_Witness ==
  /\ readsAfterStop = SegCount
  /\ decodesAfterStop = 1
  /\ workerPc = "done"
  /\ sockfd_ = "open"

\* C10: close(sockfd_) runs at most once on the descriptor socket() returned.
C10_ClosedAtMostOnce == closes <= 1

\* C2: under the fixed range a non-zero sample below min gets the clamped
\* intensity 0 and one above max gets 255, so the intensity is in 0..255.
C2_ClampedIntensity ==
  (published > 0 /\ FixedRange /\ shortReads = 0) =>
    \A p \in ProbeCells :
      writes[p] > 0 =>
        /\ lastWrite[p].valueFrameBuffer < rangeMin_ => lastWrite[p].value = 0
        /\ lastWrite[p].valueFrameBuffer > rangeMax_ => lastWrite[p].value = FullScale
        /\ lastWrite[p].value \in 0..FullScale

\* C3: every palette index process_data reads is a colour entry: an index
\* that overruns the table is clamped to the last colour entry, and the
\* trailing -1 of colormap_ironblack_ is neither read nor written.
C3_SentinelNeverRead ==
  (published > 0 /\ shortReads = 0) =>
    \A p \in ProbeCells :
      writes[p] > 0 =>
        /\ lastWrite[p].ofs_r < selectedColormapSize_ - 1
        /\ lastWrite[p].ofs_g < selectedColormapSize_ - 1
        /\ lastWrite[p].ofs_b < selectedColormapSize_ - 1
        /\ selectedColormap_(lastWrite[p].ofs_r) \in 0..FullScale
        /\ selectedColormap_(lastWrite[p].ofs_g) \in 0..FullScale
        /\ selectedColormap_(lastWrite[p].ofs_b) \in 0..FullScale

\* C6: under the fixed range a sample v with min < v <= max written to cell p
\* gives temperature v/100 - 273 and the bytes palette[3k], palette[3k+1],
\* palette[3k+2] in that order, k = trunc((v - 27300) * 255 / 4200).
C6_InRangePixel ==
  (published > 0 /\ FixedRange /\ shortReads = 0) =>
    \A p \in ProbeCells :
      LET v == lastWrite[p].valueFrameBuffer
          k == ((v - 27300) * 255) \div 4200
      IN (writes[p] > 0 /\ 27300 < v /\ v <= 31500) =>
           /\ temperature_data_[p] = v - 27300
           /\ image_data_[p] = << selectedColormap_(3 * k),
                                  selectedColormap_(3 * k + 1),
                                  selectedColormap_(3 * k + 2) >>

C9_RangePositive ==
  /\ maxValue_ > minValue_
  /\ diff_ = maxValue_ - minValue_
  /\ diff_ > 0
  /\ scale_ = F32Div(FullScale, diff_)

\* C9 witness: the scan ran with an auto flag on over a frame with at most one
\* distinct non-zero sample value, after an earlier frame.
C9_Witness ==
  /\ JustProcessed
  /\ published > 1
  /\ autoRangeMin_ /\ autoRangeMax_
  /\ Cardinality(FrameValues(shelf_)) <= 1

\* The frame in shelf_ holds no sample equal to 0.
ZeroFreeFrame == \A k \in 0..(SegCount - 1) : FirstZeroTable[shelf_[k]] = SegWords

\* The destination C4 states, for segment s in 0..3 and word i.
C4_Row(s, i) == ((i \div 82) \div 2) + 30 * s
C4_Column(i) == (i % 82) - 2 + 80 * ((i \div 82) % 2)
C4_Cell(s, i) == 160 * C4_Row(s, i) + C4_Column(i)

\* The layout part of C4, over all 4 * 4800 samples of a frame: the
\* destination is the stated one, lies in the grid, and the samples and the
\* cells of the 160 x 120 grid correspond one to one.
C4_Layout ==
  /\ SampleWords = {i \in 0..4919 : i % 82 >= 2}
  /\ \A s \in Segments : \A i \in SampleWords :
       /\ Row(s, i) = C4_Row(s - 1, i)
       /\ Column(i) = C4_Column(i)
       /\ Row(s, i) \in 0..119
       /\ Column(i) \in 0..159
       /\ InGrid(Row(s, i), Column(i))
       /\ Channels * CellOf(s, i) + 2 < Channels * myImageWidth_ * myImageHeight_
  /\ {CellOf(w[1], w[2]) : w \in Segments \X SampleWords} = Cells
  /\ Cardinality(Segments \X SampleWords) = Cardinality(Cells)

\* C4: in a frame without a zero sample every sample goes to exactly the cell
\* the formula gives, header words are never written, no sample is discarded
\* and every cell is written exactly once.
C4_Placement ==
  /\ C4_Layout
  /\ (JustProcessed /\ ZeroFreeFrame) =>
       \A p \in ProbeCells :
         /\ writes[p] = 1
         /\ lastWrite[p].i % 82 >= 2
         /\ p = C4_Cell(lastWrite[p].iSegment - 1, lastWrite[p].i)
         /\ lastWrite[p].valueFrameBuffer =
              DecodeWord(shelf_[lastWrite[p].iSegment - 1], lastWrite[p].i)
         /\ temperature_data_[p] = lastWrite[p].valueFrameBuffer - 27300

\* C4 witness: a fully received frame without a zero sample was decoded and
\* the first and the last cell of the grid were written once each, by the
\* first sample of segment 1 and the last sample of segment 4.
C4_Witness ==
  /\ JustProcessed
  /\ ZeroFreeFrame
  /\ shortReads = 0
  /\ writes[0] = 1
  /\ lastWrite[0].iSegment = 1 /\ lastWrite[0].i = 2
  /\ writes[19199] = 1
  /\ lastWrite[19199].iSegment = 4 /\ lastWrite[19199].i = 4919

\* No sample of the image row of word i (164 words) of buffer c, up to i, is 0.
C5_RowZeroFreeUpTo(c, i) ==
  \A j \in (164 * (i \div 164))..i : IsHeader(j) \/ DecodeWord(c, j) # 0
\* The image rows of buffer c that hold a zero sample.
C5_ZeroRowsTable ==
  [c \in Contents |->
     Cardinality({j \div 164 : j \in {i \in SampleWords : DecodeWord(c, i) = 0}})]
    @@ << >>

\* C5 as claimed: a zero sample abandons only the rest of its row; the drop
\* counter counts the abandoned rows; cells of abandoned rows keep their
\* values, the later rows of the segment and the later segments are written.
C5_OnlyRowAbandoned ==
  (JustProcessed /\ shortReads = 0) =>
    /\ dropped = C5_ZeroRowsTable[shelf_[0]] + C5_ZeroRowsTable[shelf_[1]]
                   + C5_ZeroRowsTable[shelf_[2]] + C5_ZeroRowsTable[shelf_[3]]
    /\ \A p \in ProbeCells : \A w \in WritersTable[p] :
         IF C5_RowZeroFreeUpTo(shelf_[w[1] - 1], w[2])
         THEN /\ writes[p] = 1
              /\ temperature_data_[p] = DecodeWord(shelf_[w[1] - 1], w[2]) - 27300
         ELSE /\ writes[p] = 0
              /\ temperature_data_[p] = prevTemperature[p]
              /\ image_data_[p] = prevImage[p]

\* C5 as amended: a zero sample at word z of a segment increments the drop
\* counter by one and abandons every later word of that segment, later rows
\* included; the other segments are decoded and written.  The counter is
\* incremented once per segment holding a zero sample and is 0 again after
\* the frame; cells of abandoned words keep their values in both buffers.
C5_RestOfSegmentAbandoned ==
  JustProcessed =>
    /\ dropped = Cardinality({k \in 0..(SegCount - 1) : FirstZeroTable[shelf_[k]] < SegWords})
    /\ n_zero_value_drop_frame_ = 0
    /\ \A p \in ProbeCells : \A w \in WritersTable[p] :
         IF FirstZeroTable[shelf_[w[1] - 1]] <= w[2]
         THEN /\ writes[p] = 0
              /\ temperature_data_[p] = prevTemperature[p]
              /\ image_data_[p] = prevImage[p]
         ELSE /\ writes[p] = 1
              /\ lastWrite[p].iSegment = w[1]
              /\ lastWrite[p].i = w[2]
              /\ temperature_data_[p] = DecodeWord(shelf_[w[1] - 1], w[2]) - 27300

\* C5 witness: the second frame has a zero sample at word HolePos of segment 2
\* and none elsewhere; the cell before it was written, the cell two packets
\* later in the same segment kept the value the first frame gave it, and
\* segment 3 was written.
C5_Witness ==
  /\ JustProcessed
  /\ published > 1
  /\ shortReads = 0
  /\ FirstZeroTable[shelf_[1]] = HolePos
  /\ dropped = 1
  /\ writes[CellOf(2, HolePos - 1)] = 1
  /\ writes[CellOf(2, HolePos + 2 * PacketWords)] = 0
  /\ temperature_data_[CellOf(2, HolePos + 2 * PacketWords)] # 0
  /\ writes[CellOf(3, HeaderWords)] = 1

=============================================================================
